---- MODULE Spec2Model ----
(***************************************************************************)
(* Model of the DNS-blast job adapter, jobs.dnsBlastJob                    *)
(* (src/src/jobs/dnsblast.go).  One behaviour is one invocation of the     *)
(* job: decoding of the arguments, validation and defaulting, the call to  *)
(* dnsblast.Start, the wait on the sync.WaitGroup and the deferred calls   *)
(* (utils.PanicHandler, cancel) that run when the function exits.          *)
(*                                                                         *)
(* utils.Decode, utils.PanicHandler and the engine dnsblast.Start are not  *)
(* part of the available sources; they are modelled from the specification *)
(* (sections 4.3, 4.4, 5 and 9).                                           *)
(***************************************************************************)
EXTENDS Integers, Sequences, FiniteSets, TLC

VARIABLES
    args,             \* the Args map handed in by the dispatcher
    globalConfig,     \* GlobalConfig (ClientID)
    pc,               \* position of the job goroutine inside dnsBlastJob
    decoded,          \* outcome of utils.Decode: pending / ok / error / panic
    jobConfig,        \* local variable jobConfig (dnsBlastConfig)
    err,              \* named result err
    retErr,           \* error value the caller received
    recovered,        \* a panic was recovered by the deferred PanicHandler
    propagated,       \* a panic left dnsBlastJob
    parentCancelled,  \* the dispatcher's context is cancelled
    derivedCancelled, \* cancel() of the derived context has been called
    startInvoked,     \* dnsblast.Start has been called
    engineConfig,     \* the dnsblast.Config handed to Start
    spawned,          \* workers the engine has launched so far
    workers,          \* state of each worker goroutine
    wgCount,          \* counter of the sync.WaitGroup
    cycles            \* dispatch cycles issued by the workers (capped)

vars == <<args, globalConfig, pc, decoded, jobConfig, err, retErr, recovered,
          propagated, parentCancelled, derivedCancelled, startInvoked,
          engineConfig, spawned, workers, wgCount, cycles>>

---------------------------------------------------------------------------
(* Bounds of the model *)

MaxParallel == 2
MaxInterval == 1
MaxCycles == 1

---------------------------------------------------------------------------
(* Constants of the program *)

UDPProtoName == "udp"
TCPProtoName == "tcp"
TCPTLSProtoName == "tcp-tls"

defaultProto == UDPProtoName
defaultParallelQueriesPerCycle == 5
defaultIntervalInMS == 10

\* time.Millisecond in units of time.Duration (nanoseconds)
Millisecond == 1000000

MaxOf(a, b) == IF a >= b THEN a ELSE b

WorkerIds == 1..MaxOf(MaxParallel, defaultParallelQueriesPerCycle)

---------------------------------------------------------------------------
(* Inputs.  A key of the Args map is absent (<<>>) or present (<<v>>).     *)

RootOpts == {<<>>, <<"example.test">>}
ProtoOpts == {<<>>, <<"udp">>, <<"tcp">>, <<"tcp-tls">>, <<"bogus">>}
SeedOpts == {<<>>, << <<>> >>, << <<"a", "b">> >>}
ParallelOpts == {<<>>} \cup {<<n>> : n \in -1..MaxParallel}
IntervalOpts == {<<>>} \cup {<<n>> : n \in -1..MaxInterval}
ClientIDs == {"", "client-1"}

ArgsSet ==
    [root_domain : RootOpts, protocol : ProtoOpts, seed_domains : SeedOpts,
     parallel_queries : ParallelOpts, interval_ms : IntervalOpts,
     malformed : BOOLEAN]

\* value of an optional key, the zero value of the field when it is absent
Field(opt, zero) == IF opt = <<>> THEN zero ELSE opt[1]

\* utils.Decode(args, &jobConfig): the struct the map decodes to
Decode(a) ==
    [RootDomain      |-> Field(a.root_domain, ""),
     Protocol        |-> Field(a.protocol, ""),
     SeedDomains     |-> Field(a.seed_domains, <<>>),
     ParallelQueries |-> Field(a.parallel_queries, 0),
     IntervalMs      |-> Field(a.interval_ms, 0)]

\* utils.Decode returns an error for a map whose values do not fit the struct
DecodeFails(a) == a.malformed

ZeroJobConfig ==
    [RootDomain |-> "", Protocol |-> "", SeedDomains |-> <<>>,
     ParallelQueries |-> 0, IntervalMs |-> 0]

NoConfig ==
    [RootDomain |-> "", Protocol |-> "", SeedDomains |-> <<>>,
     ParallelQueries |-> 0, Delay |-> 0, ClientID |-> ""]

---------------------------------------------------------------------------
(* The adapter's pure steps *)

\* the rejection condition of the protocol switch
ProtocolRejected(p) ==
    LET isUDPProto == p = UDPProtoName
        isTCPProto == p = TCPProtoName
        isTCPTLSProto == p = TCPTLSProtoName
    IN  /\ p # ""
        /\ ~(isUDPProto \/ ~isTCPProto \/ ~isTCPTLSProto)

ValidationError_NoSeedCheck(cfg) ==
    IF Len(cfg.RootDomain) = 0 THEN "no_root"
    ELSE IF ProtocolRejected(cfg.Protocol) THEN "bad_proto"
    ELSE "nil"

\* the early returns of the validation, "nil" when none is taken
ValidationError(cfg) ==
    IF Len(cfg.RootDomain) = 0 THEN "no_root"
    ELSE IF Len(cfg.SeedDomains) = 0 THEN "no_seeds"
    ELSE IF ProtocolRejected(cfg.Protocol) THEN "bad_proto"
    ELSE "nil"

ApplyDefaults_NoInterval(cfg) ==
    [cfg EXCEPT
        !.Protocol = IF @ = "" THEN defaultProto ELSE @,
        !.ParallelQueries = IF @ = 0 THEN defaultParallelQueriesPerCycle ELSE @]

\* defaulting of protocol, parallel_queries and interval_ms
ApplyDefaults(cfg) ==
    [cfg EXCEPT
        !.Protocol = IF @ = "" THEN defaultProto ELSE @,
        !.ParallelQueries = IF @ = 0 THEN defaultParallelQueriesPerCycle ELSE @,
        !.IntervalMs = IF @ = 0 THEN defaultIntervalInMS ELSE @]

\* the dnsblast.Config literal built for Start
EngineConfig(cfg, g) ==
    [RootDomain      |-> cfg.RootDomain,
     Protocol        |-> cfg.Protocol,
     SeedDomains     |-> cfg.SeedDomains,
     ParallelQueries |-> cfg.ParallelQueries,
     Delay           |-> cfg.IntervalMs * Millisecond,
     ClientID        |-> g.ClientID]

CtxDone_Detached == derivedCancelled

\* Done() of the context derived with context.WithCancel(ctx)
CtxDone == parentCancelled \/ derivedCancelled

DeferredCancel_Missing == derivedCancelled

\* state of the derived context once the deferred cancel() has run
DeferredCancel == TRUE

WaitDone_NoWait == TRUE

\* wg.Wait() returns when the counter is zero
WaitDone == wgCount = 0

\* err as left by the deferred utils.PanicHandler(logger): the handler gets
\* only the logger, the named result keeps the value it had at the panic
PanicResult(e) == e

\* the deferred utils.PanicHandler recovers every panic
PanicHandlerRecovers == TRUE

NumRunning == Cardinality({i \in WorkerIds : workers[i] = "running"})

---------------------------------------------------------------------------
(* State machine *)

Init ==
    /\ args \in ArgsSet
    /\ globalConfig \in [ClientID : ClientIDs]
    /\ pc = "decode"
    /\ decoded = "pending"
    /\ jobConfig = ZeroJobConfig
    /\ err = "nil"
    /\ retErr = "none"
    /\ recovered = FALSE
    /\ propagated = FALSE
    /\ parentCancelled = FALSE
    /\ derivedCancelled = FALSE
    /\ startInvoked = FALSE
    /\ engineConfig = NoConfig
    /\ spawned = 0
    /\ workers = [i \in WorkerIds |-> "none"]
    /\ wgCount = 0
    /\ cycles = 0

\* the function returns e: the deferred calls run, the caller gets e
Return(e) ==
    /\ pc' = "returned"
    /\ err' = e
    /\ retErr' = e
    /\ derivedCancelled' = DeferredCancel

\* a panic on the job goroutine: PanicHandler, then cancel()
Panic ==
    /\ derivedCancelled' = DeferredCancel
    /\ err' = PanicResult(err)
    /\ IF PanicHandlerRecovers
       THEN /\ pc' = "returned"
            /\ retErr' = PanicResult(err)
            /\ recovered' = TRUE
            /\ propagated' = FALSE
       ELSE /\ pc' = "panicked"
            /\ retErr' = retErr
            /\ recovered' = FALSE
            /\ propagated' = TRUE

DecodeOk ==
    /\ pc = "decode"
    /\ ~DecodeFails(args)
    /\ decoded' = "ok"
    /\ jobConfig' = Decode(args)
    /\ pc' = "validate"
    /\ UNCHANGED <<args, globalConfig, err, retErr, recovered, propagated,
                   parentCancelled, derivedCancelled, startInvoked,
                   engineConfig, spawned, workers, wgCount, cycles>>

DecodeError ==
    /\ pc = "decode"
    /\ DecodeFails(args)
    /\ decoded' = "error"
    /\ Return("decode")
    /\ UNCHANGED <<args, globalConfig, jobConfig, recovered, propagated,
                   parentCancelled, startInvoked, engineConfig, spawned,
                   workers, wgCount, cycles>>

DecodePanic ==
    /\ pc = "decode"
    /\ decoded' = "panic"
    /\ Panic
    /\ UNCHANGED <<args, globalConfig, jobConfig, parentCancelled,
                   startInvoked, engineConfig, spawned, workers, wgCount,
                   cycles>>

ValidateFail ==
    /\ pc = "validate"
    /\ ValidationError(jobConfig) # "nil"
    /\ Return(ValidationError(jobConfig))
    /\ UNCHANGED <<args, globalConfig, decoded, jobConfig, recovered,
                   propagated, parentCancelled, startInvoked, engineConfig,
                   spawned, workers, wgCount, cycles>>

CallStart ==
    /\ pc = "validate"
    /\ ValidationError(jobConfig) = "nil"
    /\ jobConfig' = ApplyDefaults(jobConfig)
    /\ engineConfig' = EngineConfig(ApplyDefaults(jobConfig), globalConfig)
    /\ startInvoked' = TRUE
    /\ pc' = "start"
    /\ UNCHANGED <<args, globalConfig, decoded, err, retErr, recovered,
                   propagated, parentCancelled, derivedCancelled, spawned,
                   workers, wgCount, cycles>>

---------------------------------------------------------------------------
(* The engine, dnsblast.Start, running on the job goroutine, and its       *)
(* workers.  Start validates the configuration, launches one worker per    *)
(* unit of parallelism (wg.Add before each launch) and returns; a worker   *)
(* runs cycles until its context is done and counts the barrier down once  *)
(* on every exit path.                                                     *)

RecognizedProtocols == {UDPProtoName, TCPProtoName, TCPTLSProtoName}

\* Start finds the protocol unrecognised and returns an error, no worker
EngineReject ==
    /\ pc = "start"
    /\ engineConfig.Protocol \notin RecognizedProtocols
    /\ err' = "engine_config"
    /\ pc' = "wait"
    /\ UNCHANGED <<args, globalConfig, decoded, jobConfig, retErr, recovered,
                   propagated, parentCancelled, derivedCancelled,
                   startInvoked, engineConfig, spawned, workers, wgCount,
                   cycles>>

\* Start launches the next worker
EngineSpawn ==
    /\ pc = "start"
    /\ engineConfig.Protocol \in RecognizedProtocols
    /\ spawned < engineConfig.ParallelQueries
    /\ spawned + 1 \in WorkerIds
    /\ spawned' = spawned + 1
    /\ workers' = [workers EXCEPT ![spawned + 1] = "running"]
    /\ wgCount' = wgCount + 1
    /\ UNCHANGED <<args, globalConfig, pc, decoded, jobConfig, err, retErr,
                   recovered, propagated, parentCancelled, derivedCancelled,
                   startInvoked, engineConfig, cycles>>

\* Start returns nil once every worker is launched
EngineReturn ==
    /\ pc = "start"
    /\ engineConfig.Protocol \in RecognizedProtocols
    /\ spawned >= engineConfig.ParallelQueries
    /\ err' = "nil"
    /\ pc' = "wait"
    /\ UNCHANGED <<args, globalConfig, decoded, jobConfig, retErr, recovered,
                   propagated, parentCancelled, derivedCancelled,
                   startInvoked, engineConfig, spawned, workers, wgCount,
                   cycles>>

\* Start returns an error (a systemic failure), possibly with workers launched
EngineFail ==
    /\ pc = "start"
    /\ engineConfig.Protocol \in RecognizedProtocols
    /\ err' = "engine"
    /\ pc' = "wait"
    /\ UNCHANGED <<args, globalConfig, decoded, jobConfig, retErr, recovered,
                   propagated, parentCancelled, derivedCancelled,
                   startInvoked, engineConfig, spawned, workers, wgCount,
                   cycles>>

\* an unexpected runtime fault inside Start, on the job goroutine
EnginePanic ==
    /\ pc = "start"
    /\ Panic
    /\ UNCHANGED <<args, globalConfig, decoded, jobConfig, parentCancelled,
                   startInvoked, engineConfig, spawned, workers, wgCount,
                   cycles>>

\* worker i dispatches one request and sleeps the delay
WorkerCycle(i) ==
    /\ workers[i] = "running"
    /\ ~CtxDone
    /\ cycles < MaxCycles
    /\ cycles' = cycles + 1
    /\ UNCHANGED <<args, globalConfig, pc, decoded, jobConfig, err, retErr,
                   recovered, propagated, parentCancelled, derivedCancelled,
                   startInvoked, engineConfig, spawned, workers, wgCount>>

\* worker i observes the cancellation and exits: wg.Done()
WorkerStop(i) ==
    /\ workers[i] = "running"
    /\ CtxDone
    /\ workers' = [workers EXCEPT ![i] = "done"]
    /\ wgCount' = wgCount - 1
    /\ UNCHANGED <<args, globalConfig, pc, decoded, jobConfig, err, retErr,
                   recovered, propagated, parentCancelled, derivedCancelled,
                   startInvoked, engineConfig, spawned, cycles>>

\* worker i exits on a fault of its own (recovered in the worker): wg.Done()
WorkerFault(i) ==
    /\ workers[i] = "running"
    /\ ~CtxDone
    /\ workers' = [workers EXCEPT ![i] = "done"]
    /\ wgCount' = wgCount - 1
    /\ UNCHANGED <<args, globalConfig, pc, decoded, jobConfig, err, retErr,
                   recovered, propagated, parentCancelled, derivedCancelled,
                   startInvoked, engineConfig, spawned, cycles>>

---------------------------------------------------------------------------
(* Back in the adapter *)

\* wg.Wait() returns, then return nil, err
WgWait ==
    /\ pc = "wait"
    /\ WaitDone
    /\ Return(err)
    /\ UNCHANGED <<args, globalConfig, decoded, jobConfig, recovered,
                   propagated, parentCancelled, startInvoked, engineConfig,
                   spawned, workers, wgCount, cycles>>

\* the dispatcher cancels the execution context it handed to the job
DispatcherCancel ==
    /\ ~parentCancelled
    /\ parentCancelled' = TRUE
    /\ UNCHANGED <<args, globalConfig, pc, decoded, jobConfig, err, retErr,
                   recovered, propagated, derivedCancelled, startInvoked,
                   engineConfig, spawned, workers, wgCount, cycles>>

JobNext ==
    \/ DecodeOk
    \/ DecodeError
    \/ DecodePanic
    \/ ValidateFail
    \/ CallStart
    \/ WgWait

EngineNext ==
    \/ EngineReject
    \/ EngineSpawn
    \/ EngineReturn
    \/ EngineFail
    \/ EnginePanic

Next ==
    \/ JobNext
    \/ EngineNext
    \/ \E i \in WorkerIds : WorkerCycle(i)
    \/ \E i \in WorkerIds : WorkerStop(i)
    \/ \E i \in WorkerIds : WorkerFault(i)
    \/ DispatcherCancel

Spec == Init /\ [][Next]_vars

\* the job goroutine and the engine keep running; every worker that sees its
\* context done eventually exits
FairSpec ==
    /\ Spec
    /\ WF_vars(JobNext)
    /\ WF_vars(EngineNext)
    /\ \A i \in WorkerIds : WF_vars(WorkerStop(i))

TypeOK ==
    /\ pc \in {"decode", "validate", "start", "wait", "returned", "panicked"}
    /\ decoded \in {"pending", "ok", "error", "panic"}
    /\ wgCount = NumRunning
    /\ spawned \in 0..Cardinality(WorkerIds)
    /\ cycles \in 0..MaxCycles

---------------------------------------------------------------------------
(* Properties *)

NonNil(e) == e \notin {"nil", "none"}

\* the configuration as decoded from the arguments
Decoded == Decode(args)

\* the arguments describe a valid configuration
ValidArgs ==
    /\ ~DecodeFails(args)
    /\ Len(Decoded.RootDomain) > 0
    /\ Len(Decoded.SeedDomains) > 0
    /\ Decoded.Protocol \in RecognizedProtocols \cup {""}

\* the decoding failed, or produced an empty root_domain or seed_domains
BadConfig ==
    \/ decoded = "error"
    \/ /\ decoded = "ok"
       /\ \/ Len(Decoded.RootDomain) = 0
          \/ Len(Decoded.SeedDomains) = 0

\* C1: when the arguments fail to decode, or decode to an empty root_domain
\* or an empty seed_domains list, the job returns a non-nil error, Start is
\* never invoked and no worker is spawned.
C1_BadConfigNeverStarts ==
    BadConfig =>
        /\ ~startInvoked
        /\ spawned = 0
        /\ wgCount = 0
        /\ pc \in {"validate", "returned"}
        /\ pc = "returned" => NonNil(retErr)

C1_Witness ==
    /\ BadConfig
    /\ pc = "returned"
    /\ retErr = "no_seeds"
    /\ Len(Decoded.RootDomain) > 0

\* C2 (as stated): a non-empty protocol outside udp, tcp, tcp-tls, with
\* root_domain and seed_domains valid, makes the job return a non-nil error
\* without ever invoking Start.
C2_UnknownProtocolRejected ==
    ( /\ decoded = "ok"
      /\ Len(Decoded.RootDomain) > 0
      /\ Len(Decoded.SeedDomains) > 0
      /\ Decoded.Protocol \notin RecognizedProtocols \cup {""} )
    => /\ ~startInvoked
       /\ pc = "returned" => NonNil(retErr)

\* C3 (as stated): once dnsBlastJob has returned, no worker registered on
\* the WaitGroup is still running, on every exit path.
C3_NoWorkerAfterReturn ==
    pc = "returned" => NumRunning = 0

\* C4 (as stated): a panic on the job goroutine does not leave dnsBlastJob
\* and the invocation returns a non-nil error.
C4_PanicBecomesError ==
    (recovered \/ propagated) => (~propagated /\ NonNil(retErr))

\* C5: for a valid configuration, once the dispatcher has cancelled the
\* execution context the invocation eventually returns.
C5_CancelLeadsToReturn ==
    (ValidArgs /\ parentCancelled) ~> (pc = "returned")

C5_Witness ==
    /\ ValidArgs
    /\ parentCancelled
    /\ pc = "returned"
    /\ ~recovered
    /\ spawned = defaultParallelQueriesPerCycle
    /\ \A i \in 1..spawned : workers[i] = "done"
    /\ cycles < MaxCycles

\* C6: with root_domain and seed_domains non-empty and protocol,
\* parallel_queries and interval_ms unset, Start receives Protocol udp,
\* ParallelQueries 5, Delay 10ms and RootDomain, SeedDomains and the global
\* ClientID unchanged.
C6_DefaultsHandedToEngine ==
    ( /\ decoded = "ok"
      /\ pc \notin {"decode", "validate"}
      /\ Len(Decoded.RootDomain) > 0
      /\ Len(Decoded.SeedDomains) > 0
      /\ Decoded.Protocol = ""
      /\ Decoded.ParallelQueries = 0
      /\ Decoded.IntervalMs = 0 )
    => /\ startInvoked
       /\ engineConfig.Protocol = "udp"
       /\ engineConfig.ParallelQueries = 5
       /\ engineConfig.Delay = 10 * Millisecond
       /\ engineConfig.RootDomain = Decoded.RootDomain
       /\ engineConfig.SeedDomains = Decoded.SeedDomains
       /\ engineConfig.ClientID = globalConfig.ClientID

C6_Witness ==
    /\ startInvoked
    /\ args.protocol = <<>>
    /\ args.parallel_queries = <<>>
    /\ args.interval_ms = <<>>
    /\ engineConfig.RootDomain = "example.test"
    /\ engineConfig.SeedDomains = <<"a", "b">>
    /\ engineConfig.ClientID = "client-1"
    /\ spawned = 5

\* C7 (as stated): the ParallelQueries handed to Start is positive: a zero
\* or negative parallel_queries becomes 5, a positive one is unchanged.
C7_ParallelismPositive ==
    startInvoked =>
        /\ engineConfig.ParallelQueries > 0
        /\ Decoded.ParallelQueries <= 0 => engineConfig.ParallelQueries = 5
        /\ Decoded.ParallelQueries > 0 =>
               engineConfig.ParallelQueries = Decoded.ParallelQueries

\* C8 (as stated): the Delay handed to Start is greater than zero for every
\* interval_ms, and exactly 10ms for an unset or zero one.
C8_DelayPositive ==
    startInvoked =>
        /\ engineConfig.Delay > 0
        /\ Decoded.IntervalMs = 0 => engineConfig.Delay = 10 * Millisecond

\* C9: once the invocation has returned, on any exit path, the derived
\* context is cancelled, and no step that cancels the derived context
\* cancels the dispatcher's context.
C9_DerivedCancelledOnReturn ==
    /\ [](pc = "returned" => derivedCancelled)
    /\ [][derivedCancelled' # derivedCancelled
            => parentCancelled' = parentCancelled]_vars

C9_Witness ==
    /\ pc = "returned"
    /\ recovered
    /\ startInvoked
    /\ derivedCancelled
    /\ ~parentCancelled

\* C10: on a path without panic that reached the engine, the adapter cancels
\* the derived context only when wg.Wait has returned: the step that cancels
\* it is taken from wg.Wait with no worker running, and while a worker is
\* running the invocation stays in wg.Wait with the derived context live.
C10_CancelOnlyAfterWait ==
    [][ /\ (pc = "wait" /\ NumRunning > 0)
            => (pc' = "wait" /\ ~derivedCancelled')
        /\ (startInvoked /\ ~recovered' /\ ~derivedCancelled
              /\ derivedCancelled')
            => (pc = "wait" /\ NumRunning = 0 /\ pc' = "returned") ]_vars

C10_Witness ==
    /\ pc = "wait"
    /\ err = "engine"
    /\ NumRunning > 0
    /\ ~parentCancelled
    /\ ~derivedCancelled

====
